---- MODULE Spec2Model ----
(***************************************************************************)
(* A model of the retrieval / ranking / evaluation core of the recommender *)
(* service: the CF recommender (cf_inference.py), the hybrid ranker        *)
(* (hybrid_ranker.py, embedding_store.py, items_repo.py), the score        *)
(* blender (rank_blender.py) and the offline evaluator (eval.py).          *)
(*                                                                         *)
(* Conventions.  Python sequences are 0-based, the sequences here are      *)
(* 1-based: index i of the model is index i-1 of the code.  A Python dict  *)
(* is a function whose DOMAIN is the key set.  An exception is an explicit *)
(* outcome (a record with ok = FALSE) that the caller's try/except, where  *)
(* the code has one, turns into a result.                                  *)
(***************************************************************************)
EXTENDS Integers, Sequences, FiniteSets, TLC

VARIABLES
    ratings,    \* the rows of ratings.csv on disk (config.RATINGS_CSV)
    artifact,   \* the CF artifact files on disk (scores.npy, user_ids.json, item_ids.json)
    tie,        \* how this build's numpy sorts place equal keys
    cf,         \* the constructed CFInference object
    items_csv,  \* the catalog table on disk (config.ITEMS_CSV)
    embeddings, \* the embedding files on disk (item_vectors.npy, id_mapping.json)
    ranker,     \* the constructed HybridRanker object
    score_dicts,  \* blend_scores: the score map of each source
    weights,      \* blend_scores: the weight of each source
    random_state, \* what the seeded draws (random_state=42) of this pandas build pick
    last_report,  \* the last evaluate_cf call delivered, with its metrics record
    req,        \* the call being served (NoRequest: the service is idle)
    resp        \* what that call returned

cfVars == <<ratings, artifact, cf>>

rankerVars == <<items_csv, embeddings, ranker>>

blendVars == <<score_dicts, weights>>

evalVars == <<random_state, last_report>>

vars == <<ratings, artifact, tie, cf, items_csv, embeddings, ranker,
          score_dicts, weights, random_state, last_report, req, resp>>

-----------------------------------------------------------------------------
(* Bounds of the model *)

\* most rows in ratings.csv
MaxRows == 3
\* largest k a caller asks for
MaxK == 2
\* most rows in items.csv
MaxItems == 2
\* most characters in a search query
MaxQueryLen == 2
\* most rows in item_vectors.npy and most entries in id_mapping.json
MaxVectors == 2

-----------------------------------------------------------------------------
(* Universes the inputs are drawn from *)

\* Item ids in the order Python compares the strings ("A" < "B" < "C").
ItemOrder == <<"A", "B", "C">>

ItemIds == {ItemOrder[i] : i \in DOMAIN ItemOrder}

\* user ids that may occur in ratings.csv
RatingUsers == {"u1", "u2"}

\* user ids that may be listed in user_ids.json ("u3" never has an interaction)
ArtifactUsers == {"u1", "u3"}

\* user ids a request may name
RequestUsers == {"u1", "u2", "u3"}

\* values a cell of scores.npy may hold
ScoreVals == {0, 1}

\* -np.inf, the mask of a seen item: below every value of ScoreVals
NegInf == -1

\* the value of a cell that was not read (no rating / no timestamp column)
Missing == "NA"

-----------------------------------------------------------------------------
(* Generic helpers: Python list and dict idioms *)

Range(s) == {s[i] : i \in DOMAIN s}

Min2(a, b) == IF a <= b THEN a ELSE b

SetMax(S) == CHOOSE x \in S : \A y \in S : y <= x

SeqsUpTo(S, n) == UNION {[1..m -> S] : m \in 0..n}

\* s[:k] for k >= 0
Take(s, k) == SubSeq(s, 1, Min2(k, Len(s)))

\* str.__lt__ on the ids of ItemOrder
StrRank(a) == CHOOSE i \in DOMAIN ItemOrder : ItemOrder[i] = a

StrLess(a, b) == StrRank(a) < StrRank(b)

\* sorted(S, key=...) for a key that orders S totally: before[a, b] iff a's key is the
\* smaller one
SortSet(S, before) ==
    [i \in 1..Cardinality(S) |->
        CHOOSE x \in S : Cardinality({y \in S : before[y, x]}) = i - 1]

\* str.__lt__ as a relation on S
StrOrder(S) == [a \in S, b \in S |-> StrLess(a, b)]

\* sum(f[x] for x in S), f a function
RECURSIVE SumOver(_, _)
SumOver(S, f) ==
    IF S = {} THEN 0
    ELSE LET x == CHOOSE y \in S : TRUE
         IN f[x] + SumOver(S \ {x}, f)

\* d.get(key, default)
DictGet(d, key, default) == IF key \in DOMAIN d THEN d[key] ELSE default

\* the empty dict
EmptyDict == <<>>

-----------------------------------------------------------------------------
(* cf_inference.py: the files read at construction *)

\* One row of ratings.csv after _normalize_ratings_columns (every cell a string).
RatingRow(u, it, r, ts) == [user_id |-> u, item_id |-> it, rating |-> r, timestamp |-> ts]

\* ratings.csv files with the user and item columns only
PlainRatingsFiles ==
    SeqsUpTo({RatingRow(u, it, Missing, Missing) : u \in RatingUsers, it \in ItemIds}, MaxRows)

\* scores.npy as a 2-dimensional array of r rows and c columns; data holds the cells
\* row after row, as the array's buffer does
Matrix(r, c, data) == [ndim |-> 2, shape |-> <<r, c>>, data |-> data]

\* scores.npy as a 1-dimensional array
Vector(n, data) == [ndim |-> 1, shape |-> <<n>>, data |-> data]

\* scores[i], a row of a 2-dimensional array
RowOf(scores, i) ==
    [j \in 1..scores.shape[2] |-> scores.data[(i - 1) * scores.shape[2] + j]]

ScoreArrays ==
    UNION {{Matrix(r, c, d) : d \in [1..(r * c) -> ScoreVals]} : r \in 0..2, c \in 0..2}
    \cup {Vector(2, d) : d \in [1..2 -> ScoreVals]}

NoArtifactFiles ==
    [exists |-> FALSE, scores |-> Vector(0, <<>>), user_ids |-> <<>>, item_ids |-> <<>>]

\* ids an artifact may list: user_ids.json and item_ids.json, repeats included
ArtifactUserLists == SeqsUpTo(ArtifactUsers, 2)

ArtifactItemLists == SeqsUpTo({"A", "B"}, 2)

\* The artifact directory: the three files missing, or all three present.  The cells
\* of an array whose shape the loader rejects are never read: such an array is drawn
\* with one filling only.
ArtifactFiles ==
    {NoArtifactFiles} \cup
    {a \in [exists : {TRUE}, scores : ScoreArrays,
            user_ids : ArtifactUserLists, item_ids : ArtifactItemLists] :
        \/ a.scores.ndim = 2
           /\ a.scores.shape = <<Cardinality(Range(a.user_ids)), Len(a.item_ids)>>
        \/ \A n \in DOMAIN a.scores.data : a.scores.data[n] = 0}

\* the rows of a crowd: n interactions of the user u4 with the item C
CrowdRows(n) == [i \in 1..n |-> RatingRow("u4", "C", Missing, Missing)]

\* sizes of the crowd: just below and just above 100 interactions
CrowdSizes == {99, 102}

\* ratings.csv files in which C is far more popular than A and B: at most three rows
\* of u1 and u2 about A and B, then the crowd
PopularFiles ==
    {base \o CrowdRows(n) :
        base \in SeqsUpTo({RatingRow("u1", "A", Missing, Missing),
                           RatingRow("u2", "A", Missing, Missing),
                           RatingRow("u2", "B", Missing, Missing)}, 3),
        n \in CrowdSizes}

\* ratings.csv files of at most two rows
ShortRatingsFiles == {df \in PlainRatingsFiles : Len(df) <= 2}

-----------------------------------------------------------------------------
(* cf_inference.py: _try_load_artifacts and CFInference.__init__ *)

\* (None, None, None)
NoneLoaded == [loaded |-> FALSE, scores |-> Vector(0, <<>>), user_to_idx |-> EmptyDict, idx_to_item |-> EmptyDict]

\* {str(u): i for i, u in enumerate(user_ids)}: a repeated id keeps its last index
UserToIdx(user_ids) ==
    [u \in Range(user_ids) |-> SetMax({i \in DOMAIN user_ids : user_ids[i] = u})]

\* {i: str(it) for i, it in enumerate(item_ids)}
IdxToItem(item_ids) == [i \in DOMAIN item_ids |-> item_ids[i]]

\* ShapeRejected comparing the number of rows only
ShapeRejectedRowsOnly(scores, user_to_idx, idx_to_item) ==
    \/ scores.ndim # 2
    \/ scores.shape[1] # Cardinality(DOMAIN user_to_idx)

\* the shape test of line 94
ShapeRejected(scores, user_to_idx, idx_to_item) ==
    \/ scores.ndim # 2
    \/ scores.shape # <<Cardinality(DOMAIN user_to_idx), Cardinality(DOMAIN idx_to_item)>>

TryLoadArtifacts(art) ==
    IF ~art.exists THEN NoneLoaded
    ELSE LET user_to_idx == UserToIdx(art.user_ids)
             idx_to_item == IdxToItem(art.item_ids)
         IN IF ShapeRejected(art.scores, user_to_idx, idx_to_item)
            THEN NoneLoaded
            ELSE [loaded |-> TRUE, scores |-> art.scores,
                  user_to_idx |-> user_to_idx, idx_to_item |-> idx_to_item]

\* user -> set(items), from df.groupby("user_id")
UserItemsOf(df) ==
    [u \in {df[i].user_id : i \in DOMAIN df} |->
        {df[i].item_id : i \in {j \in DOMAIN df : df[j].user_id = u}}]

\* df["item_id"].value_counts().to_dict()
ItemPopOf(df) ==
    [it \in {df[i].item_id : i \in DOMAIN df} |->
        Cardinality({i \in DOMAIN df : df[i].item_id = it})]

\* acc[b] = acc.get(b, 0) + 1
Bump(acc, b) == (b :> DictGet(acc, b, 0) + 1) @@ acc

\* the loop over j without the "if i == j: continue" of line 153
RECURSIVE CoInnerNoSkip(_, _, _, _)
CoInnerNoSkip(acc, items_list, i, j) ==
    IF j > Len(items_list) THEN acc
    ELSE CoInnerNoSkip(Bump(acc, items_list[j]), items_list, i, j + 1)

\* the loop over j of lines 152-156, from position j on
RECURSIVE CoInner(_, _, _, _)
CoInner(acc, items_list, i, j) ==
    IF j > Len(items_list) THEN acc
    ELSE CoInner(IF i = j THEN acc ELSE Bump(acc, items_list[j]), items_list, i, j + 1)

\* the loop over i of lines 149-156, from position i on
RECURSIVE CoOuter(_, _, _)
CoOuter(co, items_list, i) ==
    IF i > Len(items_list) THEN co
    ELSE LET a == items_list[i]
             acc == CoInner(DictGet(co, a, EmptyDict), items_list, i, 1)
         IN CoOuter((a :> acc) @@ co, items_list, i + 1)

\* the loop over the users of lines 147-156; list(items) in any order gives the
\* same counts, the model lists a set in id order
RECURSIVE CoCountsOf(_, _, _)
CoCountsOf(co, user_items, todo) ==
    IF todo = {} THEN co
    ELSE LET u == CHOOSE x \in todo : TRUE
         IN CoCountsOf(CoOuter(co, SortSet(user_items[u], StrOrder(user_items[u])), 1), user_items, todo \ {u})

\* {v: k for k, v in idx_to_item.items()}: a repeated item id keeps its last column
ItemToIdx(idx_to_item) ==
    [it \in Range(idx_to_item) |-> SetMax({i \in DOMAIN idx_to_item : idx_to_item[i] = it})]

\* CFInference.__init__
CFInference(df, art) ==
    LET loaded == TryLoadArtifacts(art)
        user_items == UserItemsOf(df)
    IN [has_artifacts |-> loaded.loaded,
        scores |-> loaded.scores,
        user_to_idx |-> loaded.user_to_idx,
        idx_to_item |-> loaded.idx_to_item,
        item_to_idx |-> ItemToIdx(loaded.idx_to_item),
        user_items |-> user_items,
        item_pop |-> ItemPopOf(df),
        co_counts |-> CoCountsOf(EmptyDict, user_items, DOMAIN user_items)]

-----------------------------------------------------------------------------
(* cf_inference.py: the scoring paths *)

\* an exception leaving a function
Raised == [ok |-> FALSE, recs |-> <<>>, path |-> "raised"]

Returned(recs, path) == [ok |-> TRUE, recs |-> recs, path |-> path]

\* PopBefore with the sign of the count lost: count ascending
PopBeforeAscending(item_pop, a, b) ==
    \/ item_pop[a] < item_pop[b]
    \/ item_pop[a] = item_pop[b] /\ StrLess(a, b)

\* PopBefore with the id of the key negated too: equal counts by id descending
PopBeforeIdDescending(item_pop, a, b) ==
    \/ item_pop[a] > item_pop[b]
    \/ item_pop[a] = item_pop[b] /\ StrLess(b, a)

\* sorted(item_pop.items(), key=lambda x: (-x[1], x[0])): count descending, id ascending
PopBefore(item_pop, a, b) ==
    \/ item_pop[a] > item_pop[b]
    \/ item_pop[a] = item_pop[b] /\ StrLess(a, b)

\* CFInference._popular_only
PopularOnly(self, k) ==
    LET keys == DOMAIN self.item_pop
        before == [a \in keys, b \in keys |-> PopBefore(self.item_pop, a, b)]
    IN Take(SortSet(keys, before), k)

\* How a numpy sort places equal cells is the build's choice (the sort kind is not
\* stable by contract): "stable" keeps them in index order in the ascending sort,
\* "reversed" places them the other way round.
TieRules == {"stable", "reversed"}

\* numpy's ascending order of two cells of a row: by value, equal values by the rule t
CellBefore(row, t, i, j) ==
    \/ row[i] < row[j]
    \/ row[i] = row[j] /\ i # j /\ (IF t = "stable" THEN i < j ELSE i > j)

\* np.argpartition(row, -k)[-k:]: the columns of the k largest cells (k <= len(row))
ArgPartitionTopK(row, k, t) ==
    {j \in DOMAIN row : Cardinality({i \in DOMAIN row : CellBefore(row, t, j, i)}) < k}

\* topk_idx[np.argsort(row[topk_idx])[::-1]]: those columns, largest cell first
SortDescending(row, topk_idx, t) ==
    LET before == [i \in topk_idx, j \in topk_idx |-> CellBefore(row, t, j, i)]
    IN SortSet(topk_idx, before)

\* row[j] = -np.inf for every seen item that has a column
MaskSeen(self, row, seen) ==
    [j \in DOMAIN row |->
        IF \E it \in seen : it \in DOMAIN self.item_to_idx /\ self.item_to_idx[it] = j
        THEN NegInf ELSE row[j]]

IsFinite(v) == v # NegInf

\* [self.idx_to_item[int(j)] for j in topk_idx if np.isfinite(row[int(j)])]
FiniteItems(self, row, topk_idx) ==
    LET kept == SelectSeq(topk_idx, LAMBDA j : IsFinite(row[j]))
    IN [n \in DOMAIN kept |-> self.idx_to_item[kept[n]]]

\* CFInference._recs_from_artifacts
RecsFromArtifacts(self, t, user_id, k) ==
    IF user_id \notin DOMAIN self.user_to_idx
    THEN Returned(PopularOnly(self, k), "popular")
    ELSE LET uidx == self.user_to_idx[user_id]
         IN IF uidx > self.scores.shape[1]
            THEN Raised  \* IndexError: the row is outside the matrix
            ELSE LET seen == DictGet(self.user_items, user_id, {})
                     row == MaskSeen(self, RowOf(self.scores, uidx), seen)
                 IN IF k > Len(row)
                    THEN Raised  \* ValueError: kth out of bounds
                    ELSE Returned(FiniteItems(self, row,
                                      SortDescending(row, ArgPartitionTopK(row, k, t), t)),
                                  "artifact")

\* the co-occurrence part of an item's score: the loop of lines 202-207
CoSum(self, seen, b) ==
    SumOver(seen, [a \in seen |-> DictGet(DictGet(self.co_counts, a, EmptyDict), b, 0)])

\* the keys of the scores dict of _cooccurrence_recs
Candidates(self, seen) ==
    (UNION {DOMAIN DictGet(self.co_counts, a, EmptyDict) : a \in seen}
     \cup DOMAIN self.item_pop) \ seen

\* Score100 without the popularity prior
Score100NoPrior(self, seen, b) == 100 * CoSum(self, seen, b)

\* 100 times an item's score: co-occurrence sum + 0.01 * popularity
Score100(self, seen, b) ==
    100 * CoSum(self, seen, b) + DictGet(self.item_pop, b, 0)

\* sorted(scores.items(), key=lambda x: (-x[1], x[0])): score descending, id ascending
ScoreBefore(self, seen, a, b) ==
    \/ Score100(self, seen, a) > Score100(self, seen, b)
    \/ Score100(self, seen, a) = Score100(self, seen, b) /\ StrLess(a, b)

\* CFInference._cooccurrence_recs
CooccurrenceRecs(self, user_id, k) ==
    LET seen == DictGet(self.user_items, user_id, {})
    IN IF seen = {}
       THEN Returned(PopularOnly(self, k), "popular")
       ELSE LET keys == Candidates(self, seen)
                before == [a \in keys, b \in keys |-> ScoreBefore(self, seen, a, b)]
            IN Returned(Take(SortSet(keys, before), k), "cooccurrence")

\* [{"item_id": str(it)} for it in recs[:k]]
AsDicts(recs, k) == [n \in DOMAIN Take(recs, k) |-> [item_id |-> recs[n]]]

\* RecoverFromArtifactError without the try/except: the exception leaves the call
PropagateArtifactError(self, user_id, k) == Raised

\* what the except clause of recommend_for_user does with an exception of the artifact path
RecoverFromArtifactError(self, user_id, k) ==
    LET fb == CooccurrenceRecs(self, user_id, k)
    IN [fb EXCEPT !.path = "recovered:" \o fb.path]

\* CFInference.recommend_for_user
RecommendForUser(self, t, user_id, k) ==
    LET out == IF self.has_artifacts
               THEN LET art == RecsFromArtifacts(self, t, user_id, k)
                    IN IF art.ok THEN art ELSE RecoverFromArtifactError(self, user_id, k)
               ELSE CooccurrenceRecs(self, user_id, k)
    IN IF out.ok THEN [out EXCEPT !.recs = AsDicts(out.recs, k)] ELSE out

\* AfterRecommend with the mask written into the matrix itself (row = self.scores[uidx]
\* without the copy)
AfterRecommendInPlace(self, user_id, k) ==
    IF self.has_artifacts /\ user_id \in DOMAIN self.user_to_idx
          /\ self.user_to_idx[user_id] <= self.scores.shape[1]
    THEN LET uidx == self.user_to_idx[user_id]
             width == self.scores.shape[2]
             row == MaskSeen(self, RowOf(self.scores, uidx),
                             DictGet(self.user_items, user_id, {}))
         IN [self EXCEPT !.scores.data =
                [n \in DOMAIN self.scores.data |->
                    IF (n - 1) \div width = uidx - 1
                    THEN row[n - (uidx - 1) * width] ELSE self.scores.data[n]]]
    ELSE self

\* the recommender after a recommend_for_user call: the mask goes into a copy of the
\* score row, the dicts are only read (.get), nothing is assigned to self
AfterRecommend(self, user_id, k) == self

\* the item ids of a response
ItemIdsOf(recs) == [n \in DOMAIN recs |-> recs[n].item_id]

-----------------------------------------------------------------------------
(* items_repo.py: the catalog table and ItemsRepo *)

REQUIRED_ID_COLS == <<"item_id", "id", "movieId", "product_id", "book_id">>

TITLE_COLS == <<"title", "name">>

DESC_COLS == <<"description", "overview", "summary">>

\* str.lower() on the column names and aliases that hold an upper-case letter
LowerTable == ("ID" :> "id") @@ ("movieId" :> "movieid") @@ ("Name" :> "name")

Lower(c) == IF c \in DOMAIN LowerTable THEN LowerTable[c] ELSE c

\* A table read by pd.read_csv(path, dtype=str).fillna(""): the header and the rows,
\* each row holding one string per column.
Table(columns, rows) == [columns |-> columns, rows |-> rows]

\* a component that is not part of the specification being checked
NoTable == Table(<<>>, <<>>)

\* the cells a column of items.csv may hold, by the lower-cased column name
CellsOf(c) ==
    CASE Lower(c) \in {"item_id", "id"} -> {"A", "B"}
      [] Lower(c) = "movieid" -> {"C"}
      [] Lower(c) \in {"title", "name"} -> {"T", "t"}
      [] OTHER -> {"", "d"}

RowsOf(columns) == {r \in [DOMAIN columns -> {"A", "B", "C", "T", "t", "", "d"}] :
                        \A i \in DOMAIN columns : r[i] \in CellsOf(columns[i])}

\* the headers items.csv may have
Headers ==
    {<<"item_id", "title", "description">>, <<"name", "ID">>, <<"title", "description">>,
     <<"movieId", "ID">>, <<"id", "item_id">>}

CatalogFiles ==
    UNION {{Table(h, rows) : rows \in SeqsUpTo(RowsOf(h), MaxItems)} : h \in Headers}

\* items.csv files of at most one row
ShortCatalogFiles == {t \in CatalogFiles : Len(t.rows) <= 1}

\* {c.lower(): c for c in df.columns}
LowerMap(columns) ==
    [l \in {Lower(columns[i]) : i \in DOMAIN columns} |->
        columns[SetMax({i \in DOMAIN columns : Lower(columns[i]) = l})]]

\* the positions of the aliases whose key is a key of lower_map
Matching(keys, lower_map) ==
    {i \in DOMAIN keys : keys[i] \in DOMAIN lower_map}

SetMin(S) == CHOOSE x \in S : \A y \in S : x <= y

\* FirstAlias without the break: the last alias that matches
LastAlias(matching) == SetMax(matching)

\* the alias a search through a priority list stops at ("break", "next(...)")
FirstAlias(matching) == SetMin(matching)

\* the column a cell of the normalized frame is read from: its position in the header,
\* 0 for a column the frame had to add
ColumnAt(columns, name) ==
    IF name \in Range(columns) THEN SetMin({i \in DOMAIN columns : columns[i] = name}) ELSE 0

CellAt(row, pos) == IF pos = 0 THEN "" ELSE row[pos]

\* the failed construction: ValueError("items.csv must contain one of: ...")
RepoError == [ok |-> FALSE, df |-> <<>>, by_id |-> EmptyDict]

\* ItemsRepo.__init__
ItemsRepo(csv) ==
    LET lower_map == LowerMap(csv.columns)
        ids == Matching([i \in DOMAIN REQUIRED_ID_COLS |-> Lower(REQUIRED_ID_COLS[i])], lower_map)
        titles == Matching(TITLE_COLS, lower_map)
        descs == Matching(DESC_COLS, lower_map)
    IN IF ids = {} THEN RepoError
       ELSE LET id_col == lower_map[Lower(REQUIRED_ID_COLS[FirstAlias(ids)])]
                title_col == IF titles = {} THEN "title" ELSE lower_map[TITLE_COLS[FirstAlias(titles)]]
                desc_col == IF descs = {} THEN "description"
                            ELSE lower_map[DESC_COLS[FirstAlias(descs)]]
                df == [n \in DOMAIN csv.rows |->
                          [item_id |-> CellAt(csv.rows[n], ColumnAt(csv.columns, id_col)),
                           title |-> CellAt(csv.rows[n], ColumnAt(csv.columns, title_col)),
                           description |->
                               CellAt(csv.rows[n], ColumnAt(csv.columns, desc_col))]]
            IN [ok |-> TRUE, df |-> df,
                \* the dict comprehension of lines 58-65: a repeated id keeps its last row
                by_id |-> [id \in {df[n].item_id : n \in DOMAIN df} |->
                              df[SetMax({n \in DOMAIN df : df[n].item_id = id})]]]

\* what a lookup answers for an id that is no key
None == [none |-> TRUE]

\* ItemsRepo.get_item
GetItemOf(items, item_id) == DictGet(items.by_id, item_id, None)

-----------------------------------------------------------------------------
(* embedding_store.py: EmbeddingStore *)

\* the rows item_vectors.npy may hold
Vecs == {<<1, 0>>, <<0, 1>>, <<1, 1>>}

NoEmbeddingFiles == [exists |-> FALSE, vectors |-> <<>>, id_mapping |-> <<>>]

\* The embedding directory: a file missing, or both present.  id_mapping.json maps
\* "0", "1", ... to item ids as the indexer writes it; position i here is its key
\* i - 1.  NearestNeighbors.fit needs at least one row.
EmbeddingFiles ==
    {NoEmbeddingFiles} \cup
    [exists : {TRUE},
     vectors : SeqsUpTo(Vecs, MaxVectors) \ {<<>>},
     id_mapping : SeqsUpTo({"A", "B"}, MaxVectors)]

\* EmbeddingStore._load
EmbeddingStore(files) ==
    IF ~files.exists
    THEN [loaded |-> FALSE, emb |-> <<>>, id_map |-> EmptyDict]
    ELSE [loaded |-> TRUE, emb |-> files.vectors,
          id_map |-> [i \in DOMAIN files.id_mapping |-> files.id_mapping[i]]]

Dot(a, b) == a[1] * b[1] + a[2] * b[2]

\* a is nearer to q than b in cosine distance (rows without a negative or only zero
\* cells: the cosines are compared by their squares)
CosNearer(q, a, b) == Dot(q, a) * Dot(q, a) * Dot(b, b) > Dot(q, b) * Dot(q, b) * Dot(a, a)

\* i is returned before j by kneighbors for the query row q: by distance, rows at the
\* same distance by the rule t of the build's sort
NeighborBefore(emb, q, t, i, j) ==
    \/ CosNearer(q, emb[i], emb[j])
    \/ /\ ~CosNearer(q, emb[j], emb[i])
       /\ i # j
       /\ (IF t = "stable" THEN i < j ELSE i > j)

\* self.nn.kneighbors(vec, n_neighbors=...)[1][0]
KNeighbors(emb, q, n_neighbors, t) ==
    LET rows == DOMAIN emb
        before == [i \in rows, j \in rows |-> NeighborBefore(emb, q, t, i, j)]
    IN Take(SortSet(rows, before), n_neighbors)

\* rev = {v: k for k, v in self.id_map.items()}: a repeated item id keeps its last row
Rev(id_map) ==
    [it \in Range(id_map) |-> SetMax({i \in DOMAIN id_map : id_map[i] = it})]

\* the loop of lines 62-67, from position pos of indices on
RECURSIVE SkipSelf(_, _, _, _, _, _)
SkipSelf(self, indices, idx, k, pos, out) ==
    IF pos > Len(indices) THEN Returned(out, "neighbors")
    ELSE LET i == indices[pos]
         IN IF i = idx THEN SkipSelf(self, indices, idx, k, pos + 1, out)
            ELSE IF i \notin DOMAIN self.id_map THEN Raised  \* KeyError
            ELSE IF Len(out) + 1 >= k THEN Returned(Append(out, self.id_map[i]), "neighbors")
            ELSE SkipSelf(self, indices, idx, k, pos + 1, Append(out, self.id_map[i]))

\* EmbeddingStore.similar
EmbedSimilar(self, t, item_id, k) ==
    IF ~self.loaded THEN Returned(<<>>, "disabled")
    ELSE LET rev == Rev(self.id_map)
         IN IF item_id \notin DOMAIN rev THEN Returned(<<>>, "unknown")
            ELSE LET idx == rev[item_id]
                 IN IF idx > Len(self.emb) THEN Raised  \* IndexError
                    ELSE SkipSelf(self,
                                  KNeighbors(self.emb, self.emb[idx],
                                             Min2(k + 1, Len(self.emb)), t),
                                  idx, k, 1, <<>>)

-----------------------------------------------------------------------------
(* hybrid_ranker.py: HybridRanker *)

\* the characters a query is made of
QueryChars == {"a", "A", "-"}

Queries == SeqsUpTo(QueryChars, MaxQueryLen)

\* the class [A-Za-z0-9] of TOKENIZER
IsAlnum(c) == c \in {"a", "A"}

\* str.lower() on one character
LowerChar(c) == IF c = "A" THEN "a" ELSE c

\* TOKENIZER.findall(text), from position pos on; cur is the run being read
RECURSIVE FindAll(_, _, _)
FindAll(text, pos, cur) ==
    IF pos > Len(text) THEN (IF cur = <<>> THEN <<>> ELSE <<cur>>)
    ELSE IF IsAlnum(text[pos]) THEN FindAll(text, pos + 1, Append(cur, text[pos]))
    ELSE (IF cur = <<>> THEN <<>> ELSE <<cur>>) \o FindAll(text, pos + 1, <<>>)

\* _tokenize
Tokenize(text) ==
    LET found == FindAll(text, 1, <<>>)
    IN [n \in DOMAIN found |-> [m \in DOMAIN found[n] |-> LowerChar(found[n][m])]]

\* the scores BM25Okapi.get_scores may give a document (rank_bm25 is a library: the
\* model takes any vector of these with one score per document)
Bm25Vals == {0, 1}

\* the object a failed construction leaves, and the one of a specification that does
\* not construct the ranker
NotConstructed ==
    [ok |-> FALSE, items |-> RepoError, bm25 |-> FALSE,
     embed |-> EmbeddingStore(NoEmbeddingFiles), idx_to_item |-> <<>>]

\* HybridRanker.__init__
HybridRanker(csv, files) ==
    LET items == ItemsRepo(csv)
    IN IF ~items.ok THEN NotConstructed
       ELSE [ok |-> TRUE, items |-> items,
             \* BM25Okapi(tokenized_corpus) if len(tokenized_corpus) > 0 else None
             bm25 |-> Len(items.df) > 0,
             embed |-> EmbeddingStore(files),
             idx_to_item |-> [n \in DOMAIN items.df |-> items.df[n].item_id]]

\* scores.argsort(): the positions in ascending order of score
Argsort(scores, t) ==
    LET before == [i \in DOMAIN scores, j \in DOMAIN scores |-> CellBefore(scores, t, i, j)]
    IN SortSet(DOMAIN scores, before)

\* s[::-1]
Reversed(s) == [n \in DOMAIN s |-> s[Len(s) + 1 - n]]

\* TopIdx without the reversal: the k lowest scores
TopIdxAscending(scores, k, t) == Take(Argsort(scores, t), k)

\* scores.argsort()[::-1][:k]
TopIdx(scores, k, t) == Take(Reversed(Argsort(scores, t)), k)

\* the result rows of search for the positions top_idx
SearchResults(self, scores, top_idx) ==
    [n \in DOMAIN top_idx |->
        [item_id |-> self.items.df[top_idx[n]].item_id,
         title |-> self.items.df[top_idx[n]].title,
         description |-> self.items.df[top_idx[n]].description,
         score |-> scores[top_idx[n]]]]

SearchReturned(results, top_idx, scores) ==
    [ok |-> TRUE, results |-> results, top_idx |-> top_idx, scores |-> scores]

\* HybridRanker.search, scores being what self.bm25.get_scores(q_tokens) returns
HybridSearch(self, t, query, k, scores) ==
    IF Tokenize(query) = <<>> THEN SearchReturned(<<>>, <<>>, <<>>)
    ELSE IF ~self.bm25
    \* the substring scan of an index that is None: the table has no row to scan
    THEN SearchReturned(<<>>, <<>>, <<>>)
    ELSE IF Len(scores) = 0 THEN SearchReturned(<<>>, <<>>, scores)
    ELSE LET top_idx == TopIdx(scores, k, t)
         IN SearchReturned(SearchResults(self, scores, top_idx), top_idx, scores)

\* out.append(item | {"score": None}) for the neighbours the catalog knows
WithScoreNone(self, neigh_ids) ==
    LET known == SelectSeq(neigh_ids, LAMBDA nid : GetItemOf(self.items, nid) # None)
    IN [n \in DOMAIN known |->
           [item_id |-> GetItemOf(self.items, known[n]).item_id,
            title |-> GetItemOf(self.items, known[n]).title,
            description |-> GetItemOf(self.items, known[n]).description,
            score |-> "None"]]

\* HybridRanker.similar
HybridSimilar(self, t, item_id, k) ==
    LET neigh == EmbedSimilar(self.embed, t, item_id, k)
    IN IF ~neigh.ok THEN [ok |-> FALSE, neigh_ids |-> <<>>, results |-> <<>>]
       ELSE [ok |-> TRUE, neigh_ids |-> neigh.recs,
             results |-> WithScoreNone(self, neigh.recs)]

-----------------------------------------------------------------------------
(* The rank blender (common/rank_blender.py) *)

\* names of the score sources
Sources == {"bm25", "cf"}

\* a weight as a caller may pass it: negative, zero or positive
WeightVals == {-1, 0, 1, 2}

\* score maps over the items A and B, and the score_dicts and weights arguments
ScoreMaps == UNION {[S -> ScoreVals] : S \in SUBSET {"A", "B"}}

ScoreDicts == UNION {[S -> ScoreMaps] : S \in SUBSET Sources}

Weights == UNION {[S -> WeightVals] : S \in SUBSET Sources}

\* max(0.0, w)
Max0(w) == IF w > 0 THEN w ELSE 0

\* TotalW without max(0.0, w): negative weights are summed too
TotalWUnclipped(ws) ==
    LET total_w == SumOver(DOMAIN ws, ws)
    IN IF total_w <= 0 THEN 1 ELSE total_w

\* total_w: the sum of the clipped weights, 1.0 when that sum is not positive
TotalW(ws) ==
    LET total_w == SumOver(DOMAIN ws, [k \in DOMAIN ws |-> Max0(ws[k])])
    IN IF total_w <= 0 THEN 1 ELSE total_w

\* norm_w: max(0.0, v) / total_w, a fraction kept as numerator and denominator
NormW(ws) == [k \in DOMAIN ws |-> [num |-> Max0(ws[k]), den |-> TotalW(ws)]]

\* w = norm_w.get(source_name, 0.0)
WeightOf(ws, source_name) == DictGet(NormW(ws), source_name, [num |-> 0, den |-> 1])

\* every source reaches the inner loop
BlendedSourcesAll(dicts, ws) == DOMAIN dicts

\* the sources that reach the inner loop: those whose w is not 0.0
BlendedSources(dicts, ws) == {src \in DOMAIN dicts : WeightOf(ws, src).num # 0}

\* combined: for every item of a blended source the sum of w * s, in units of
\* 1 / total_w
BlendScores(dicts, ws) ==
    LET used == BlendedSources(dicts, ws)
        keys == UNION {DOMAIN dicts[src] : src \in used}
    IN [item_id \in keys |->
           [num |-> SumOver({src \in used : item_id \in DOMAIN dicts[src]},
                            [src \in used |->
                                WeightOf(ws, src).num * DictGet(dicts[src], item_id, 0)]),
            den |-> TotalW(ws)]]

\* no blend call is part of this service
BlenderUnused == score_dicts = EmptyDict /\ weights = EmptyDict

-----------------------------------------------------------------------------
(* eval.py: leave-one-out evaluation of the CF recommender *)

\* an empty cell of a column the file has (pandas reads it as NaN)
NaN == "nan"

\* cells of the rating column, and the numbers pd.to_numeric makes of them
RatingCells == {NaN, "3", "5"}

ToNumeric(cell) == IF cell = "3" THEN 3 ELSE IF cell = "5" THEN 5 ELSE 0

\* Cells of the timestamp column (read with dtype=str), in the order Python compares
\* the strings: "10" < "9".
TimestampOrder == <<"10", "9">>

TimestampCells == {NaN} \cup Range(TimestampOrder)

TimestampRank(ts) == CHOOSE i \in DOMAIN TimestampOrder : TimestampOrder[i] = ts

\* "timestamp" in df.columns / "rating" in df.columns
HasTimestamp(df) == \E n \in DOMAIN df : df[n].timestamp # Missing

HasRating(df) == \E n \in DOMAIN df : df[n].rating # Missing

\* the rows of a set of positions, in file order
InFileOrder(P) == SortSet(P, [a \in P, b \in P |-> a < b])

\* g of "for uid, g in df.groupby("user_id")": the positions of uid's rows
GroupOf(df, uid) == {n \in DOMAIN df : df[n].user_id = uid}

\* g.sort_values("timestamp").iloc[-1]: empty cells are placed last, in file order;
\* the other rows ascend by the string, equal strings as this build places them
LatestRow(df, g, t) ==
    LET empty == {n \in g : df[n].timestamp = NaN}
        top == {n \in g : \A m \in g :
                   TimestampRank(df[m].timestamp) <= TimestampRank(df[n].timestamp)}
    IN IF empty # {} THEN SetMax(empty)
       ELSE IF t = "stable" THEN SetMax(top) ELSE SetMin(top)

\* rows.sample(1, random_state=42).iloc[0]: the first entry of the permutation the
\* seeded generator draws for that many rows
SampleOne(rows, rs) == rows[rs[Len(rows)][1]]

\* the row sampled when the table has no timestamp column
SampledRow(df, g, rs) ==
    LET rated == {n \in g : df[n].rating \notin {Missing, NaN}}
        high == {n \in g : n \in rated /\ ToNumeric(df[n].rating) >= 4}
        pos == IF high # {} THEN high ELSE g
    IN IF HasRating(df) /\ rated # {} THEN SampleOne(InFileOrder(pos), rs)
       ELSE SampleOne(InFileOrder(g), rs)

\* user ids in the order groupby visits them (sorted as strings)
UserOrder == <<"u1", "u2", "u3">>

UserBefore(S) ==
    [a \in S, b \in S |->
        (CHOOSE i \in DOMAIN UserOrder : UserOrder[i] = a)
            < (CHOOSE i \in DOMAIN UserOrder : UserOrder[i] = b)]

\* Eligible without the lower bound of two rows
EligibleWithOneRow(df, uid) == GroupOf(df, uid) # {}

\* a group that is not skipped by "if len(g) < 2: continue"
Eligible(df, uid) == Cardinality(GroupOf(df, uid)) >= 2

\* _choose_holdout(df): one (user_id, item_id) row for every group that is not skipped
ChooseHoldout(df, t, rs) ==
    LET users == {u \in {df[n].user_id : n \in DOMAIN df} : Eligible(df, u)}
        order == SortSet(users, UserBefore(users))
        test_row(uid) == IF HasTimestamp(df) THEN LatestRow(df, GroupOf(df, uid), t)
                         ELSE SampledRow(df, GroupOf(df, uid), rs)
    IN [i \in DOMAIN order |->
           [user_id |-> order[i], item_id |-> df[test_row(order[i])].item_id]]

\* SampleUsers without the seed: a call after the first report draws the rows in the
\* opposite order
SampleUsersUnseeded(holdout, users_limit, rs) ==
    LET drawn == IF last_report.req.op = "evaluate_cf"
                 THEN [i \in DOMAIN holdout |-> rs[Len(holdout)][Len(holdout) + 1 - i]]
                 ELSE rs[Len(holdout)]
        perm == Take(drawn, Min2(users_limit, Len(holdout)))
    IN [i \in DOMAIN perm |-> holdout[perm[i]]]

\* holdout.sample(min(users_limit, len(holdout)), random_state=42): the rows at the
\* first entries of the seeded permutation
SampleUsers(holdout, users_limit, rs) ==
    LET perm == Take(rs[Len(holdout)], Min2(users_limit, Len(holdout)))
    IN [i \in DOMAIN perm |-> holdout[perm[i]]]

\* round(num / den, 4) in ten-thousandths, den > 0
Round4(num, den) == (2 * 10000 * num + den) \div (2 * den)

\* hits of _ndcg_at_k and _ap_at_k: [1 if r == true_item else 0 for r in recs[:k]]
HitsOf(true_item, recs, k) ==
    [i \in DOMAIN Take(recs, k) |-> IF recs[i] = true_item THEN 1 ELSE 0]

\* 1 / log2(i + 1) for the rank i, in ten-thousandths
Discount == <<10000, 6309, 5000, 4307>>

\* _dcg(rels), in ten-thousandths
Dcg(rels) == SumOver(DOMAIN rels, [i \in DOMAIN rels |-> rels[i] * Discount[i]])

\* sorted(hits, reverse=True)
IdealOf(hits) ==
    LET n == SumOver(DOMAIN hits, hits)
    IN [i \in DOMAIN hits |-> IF i <= n THEN 1 ELSE 0]

\* _ndcg_at_k, in ten-thousandths
NdcgAtK(true_item, recs, k) ==
    LET hits == HitsOf(true_item, recs, k)
        dcg == Dcg(hits)
        idcg == IF Dcg(IdealOf(hits)) = 0 THEN 10000 ELSE Dcg(IdealOf(hits))
    IN Round4(dcg, idcg)

\* _ap_at_k, in ten-thousandths: score is the sum of hit_count / i over the hits,
\* kept in twelfths
ApAtK(true_item, recs, k) ==
    LET hits == HitsOf(true_item, recs, k)
        hit_count(i) == SumOver(1..i, hits)
        score12 == SumOver(DOMAIN hits,
                           [i \in DOMAIN hits |-> hits[i] * ((12 * hit_count(i)) \div i)])
        total == SumOver(DOMAIN hits, hits)
    IN IF total = 0 THEN 0 ELSE Round4(score12, 12 * total)

\* CFAdapter(): a CFInference constructed from the files on disk
CFAdapter(df, art) == [impl |-> CFInference(df, art)]

\* CFAdapter.recommend_for_user: the recommender's list, [] for an empty one
AdapterRecommend(self, t, user_id, k) == RecommendForUser(self.impl, t, user_id, k).recs

\* the ValueError of an evaluation without an eligible user
EvalRaised == [ok |-> FALSE, metrics |-> <<>>]

\* seconds the wall clock may show between t0 and the end of the loop
ElapsedVals == {0, 1}

\* users_limit = None
NoLimit == 0

\* evaluate_cf(k, users_limit); elapsed is what the wall clock measured
EvaluateCf(df, art, t, rs, k, users_limit, elapsed) ==
    LET all == ChooseHoldout(df, t, rs)
        holdout == IF users_limit # NoLimit THEN SampleUsers(all, users_limit, rs) ELSE all
        cfa == CFAdapter(df, art)
        total == Len(holdout)
        rec_items == [i \in DOMAIN holdout |->
                         ItemIdsOf(AdapterRecommend(cfa, t, holdout[i].user_id, k))]
        hits == [i \in DOMAIN holdout |->
                    IF holdout[i].item_id \in Range(Take(rec_items[i], k)) THEN 1 ELSE 0]
        maps == [i \in DOMAIN holdout |-> ApAtK(holdout[i].item_id, rec_items[i], k)]
        ndcgs == [i \in DOMAIN holdout |-> NdcgAtK(holdout[i].item_id, rec_items[i], k)]
        coverage_items == UNION {Range(rec_items[i]) : i \in DOMAIN holdout}
    IN IF Len(all) = 0 THEN EvalRaised
       ELSE [ok |-> TRUE,
             metrics |->
                 [k |-> k,
                  users_evaluated |-> total,
                  precision_at_k |-> Round4(SumOver(DOMAIN hits, hits), k * total),
                  recall_at_k |-> Round4(SumOver(DOMAIN hits, hits), total),
                  map_at_k |-> Round4(SumOver(DOMAIN maps, maps), 10000 * total),
                  ndcg_at_k |-> Round4(SumOver(DOMAIN ndcgs, ndcgs), 10000 * total),
                  hit_rate |-> Round4(SumOver(DOMAIN hits, hits), total),
                  item_coverage |-> Cardinality(coverage_items),
                  elapsed_sec |-> elapsed]]

-----------------------------------------------------------------------------
(* The CF recommender as a state machine *)

\* One call is served at a time: a call is taken when the service is idle, its
\* response is kept until it is delivered, then the service is idle again.
NoRequest == [op |-> "idle"]

NoResponse == [ok |-> TRUE, path |-> "none"]

\* no evaluation is part of this service
NoReport == [req |-> NoRequest, resp |-> NoResponse]

NoRandomState == <<>>

EvaluatorUnused == random_state = NoRandomState /\ last_report = NoReport

\* the response is delivered
Return ==
    /\ req # NoRequest
    /\ req' = NoRequest
    /\ resp' = NoResponse
    /\ last_report' = IF req.op = "evaluate_cf" THEN [req |-> req, resp |-> resp]
                      ELSE last_report
    /\ UNCHANGED <<cfVars, rankerVars, blendVars, random_state, tie>>

InitCF ==
    /\ ratings \in PlainRatingsFiles \cup PopularFiles
    /\ artifact \in ArtifactFiles
    /\ ratings \in ShortRatingsFiles \/ artifact = NoArtifactFiles
    /\ tie \in TieRules
    /\ cf = CFInference(ratings, artifact)
    /\ items_csv = NoTable
    /\ embeddings = NoEmbeddingFiles
    /\ ranker = NotConstructed
    /\ BlenderUnused
    /\ EvaluatorUnused
    /\ req = NoRequest
    /\ resp = NoResponse

\* a request GET /recommend?user_id=..&k=..
Recommend(user_id, k) ==
    /\ req = NoRequest
    /\ req' = [op |-> "recommend_for_user", user_id |-> user_id, k |-> k]
    /\ resp' = RecommendForUser(cf, tie, user_id, k)
    /\ cf' = AfterRecommend(cf, user_id, k)
    /\ UNCHANGED <<ratings, artifact, rankerVars, blendVars, evalVars, tie>>

NextCF ==
    \/ \E user_id \in RequestUsers, k \in 1..MaxK : Recommend(user_id, k)
    \/ Return

SpecCF == InitCF /\ [][NextCF]_vars

-----------------------------------------------------------------------------
(* The hybrid ranker as a state machine *)

\* the catalog with the lexical index, the similarity feature disabled
InitSearch ==
    /\ items_csv \in CatalogFiles
    /\ embeddings = NoEmbeddingFiles
    /\ tie \in TieRules
    /\ ranker = HybridRanker(items_csv, embeddings)
    /\ ratings = <<>>
    /\ artifact = NoArtifactFiles
    /\ cf = CFInference(<<>>, NoArtifactFiles)
    /\ BlenderUnused
    /\ EvaluatorUnused
    /\ req = NoRequest
    /\ resp = NoResponse

\* the embedding files with a catalog of at most one row
InitSimilar ==
    /\ items_csv \in ShortCatalogFiles
    /\ embeddings \in EmbeddingFiles
    /\ tie \in TieRules
    /\ ranker = HybridRanker(items_csv, embeddings)
    /\ ratings = <<>>
    /\ artifact = NoArtifactFiles
    /\ cf = CFInference(<<>>, NoArtifactFiles)
    /\ BlenderUnused
    /\ EvaluatorUnused
    /\ req = NoRequest
    /\ resp = NoResponse

\* a request GET /search?q=..&k=..
Search(query, k) ==
    /\ req = NoRequest
    /\ ranker.ok
    /\ req' = [op |-> "search", query |-> query, k |-> k]
    /\ \E scores \in [DOMAIN ranker.items.df -> Bm25Vals] :
           resp' = HybridSearch(ranker, tie, query, k, scores)
    /\ UNCHANGED <<cfVars, rankerVars, blendVars, evalVars, tie>>

\* a request GET /search/similar?item_id=..&k=..
Similar(item_id, k) ==
    /\ req = NoRequest
    /\ ranker.ok
    /\ req' = [op |-> "similar", item_id |-> item_id, k |-> k]
    /\ resp' = HybridSimilar(ranker, tie, item_id, k)
    /\ UNCHANGED <<cfVars, rankerVars, blendVars, evalVars, tie>>

\* a lookup self.items.get_item(item_id)
GetItem(item_id) ==
    /\ req = NoRequest
    /\ ranker.ok
    /\ req' = [op |-> "get_item", item_id |-> item_id]
    /\ resp' = [ok |-> TRUE, item |-> GetItemOf(ranker.items, item_id)]
    /\ UNCHANGED <<cfVars, rankerVars, blendVars, evalVars, tie>>

NextSearch ==
    \/ \E query \in Queries, k \in 1..MaxK : Search(query, k)
    \/ \E item_id \in ItemIds : GetItem(item_id)
    \/ Return

SpecSearch == InitSearch /\ [][NextSearch]_vars

NextSimilar ==
    \/ \E item_id \in ItemIds, k \in 1..MaxK : Similar(item_id, k)
    \/ Return

SpecSimilar == InitSimilar /\ [][NextSimilar]_vars


-----------------------------------------------------------------------------
(* Claims about the CF recommender *)

Requested == req.op = "recommend_for_user"

NoRepeats(s) == \A i, j \in DOMAIN s : s[i] = s[j] => i = j

\* the number of rows of ratings.csv that name the item
RowCount(it) == Cardinality({i \in DOMAIN ratings : ratings[i].item_id = it})

RatedItems == {ratings[i].item_id : i \in DOMAIN ratings}

\* a has more rows than b, or as many and the smaller id
MorePopular(a, b) ==
    \/ RowCount(a) > RowCount(b)
    \/ RowCount(a) = RowCount(b) /\ StrLess(a, b)

\* ids is the list of the k most popular items of ratings.csv, the most popular first
IsGlobalTopK(ids, k) ==
    /\ Len(ids) = Min2(k, Cardinality(RatedItems))
    /\ Range(ids) \subseteq RatedItems
    /\ \A i, j \in DOMAIN ids : i < j => MorePopular(ids[i], ids[j])
    /\ \A x \in RatedItems \ Range(ids) : \A i \in DOMAIN ids : MorePopular(ids[i], x)

\* the user of the request appears in no row of ratings.csv
ColdUser == \A i \in DOMAIN ratings : ratings[i].user_id # req.user_id

ListedUser == req.user_id \in Range(artifact.user_ids)

\* C1: every list recommend_for_user returns has at most k entries and no item_id
\* twice, in artifact mode and in fallback mode.
C1_AtMostKNoDuplicates ==
    Requested => /\ resp.ok
                 /\ Len(resp.recs) <= req.k
                 /\ NoRepeats(ItemIdsOf(resp.recs))

\* C2 as stated: for a user in no row of the interaction data the answer is the global
\* top-k by popularity (ties by item_id ascending), in fallback mode and with a valid
\* artifact loaded alike.
C2_ColdStartInEveryMode ==
    (Requested /\ ColdUser) => resp.ok /\ IsGlobalTopK(ItemIdsOf(resp.recs), req.k)

\* C2 as amended: for a user in no row of the interaction data the answer is the global
\* top-k by popularity (ties by item_id ascending) in fallback mode, and with a valid
\* artifact loaded when the artifact's user list does not name the user either.
C2_ColdStartUnlisted ==
    (Requested /\ ColdUser /\ (cf.has_artifacts => ~ListedUser))
        => resp.ok /\ IsGlobalTopK(ItemIdsOf(resp.recs), req.k)

\* a cold, unlisted user answered in artifact mode with the two rated items
C2_Witness ==
    /\ Requested /\ ColdUser /\ cf.has_artifacts /\ ~ListedUser
    /\ Len(resp.recs) = 2 /\ Cardinality(RatedItems) = 2

\* C3: recommend_for_user never ends in an error: a failure of the artifact scoring
\* path (k above the number of artifact items, a row index outside the matrix) is
\* absorbed and a list is returned.
C3_NeverRaises == Requested => resp.ok

\* the artifact path raised for k above the number of columns and a list came back
C3_Witness ==
    /\ Requested /\ cf.has_artifacts /\ ListedUser
    /\ cf.user_to_idx[req.user_id] <= cf.scores.shape[1]
    /\ req.k > cf.scores.shape[2]
    /\ resp.ok /\ Len(resp.recs) > 0
    /\ resp.path = "recovered:cooccurrence"

\* the answer of the fallback path to the request
FallbackAnswer ==
    LET fb == CooccurrenceRecs(cf, req.user_id, req.k)
    IN [fb EXCEPT !.recs = AsDicts(fb.recs, req.k)]

\* C4 as stated: a score matrix that is not 2-dimensional or whose shape differs from
\* (number of listed user ids, number of listed item ids) is rejected at load:
\* has_artifacts is false and every request is answered by the fallback path.
C4_RejectedByListLengths ==
    (/\ artifact.exists
     /\ \/ artifact.scores.ndim # 2
        \/ artifact.scores.shape # <<Len(artifact.user_ids), Len(artifact.item_ids)>>)
        => /\ ~cf.has_artifacts
           /\ Requested => resp = FallbackAnswer

\* C4 as amended: a score matrix that is not 2-dimensional or whose shape differs from
\* (number of distinct listed user ids, number of listed item ids) is rejected at
\* load: has_artifacts is false and every request is answered by the fallback path.
C4_RejectedByMapSizes ==
    (/\ artifact.exists
     /\ \/ artifact.scores.ndim # 2
        \/ artifact.scores.shape #
              <<Cardinality(Range(artifact.user_ids)), Len(artifact.item_ids)>>)
        => /\ ~cf.has_artifacts
           /\ Requested => resp = FallbackAnswer

\* a 2-dimensional matrix with a column too few, rejected, and a listed user with a
\* seen item answered by co-occurrence
C4_Witness ==
    /\ artifact.exists /\ artifact.scores.ndim = 2
    /\ artifact.scores.shape[1] = Cardinality(Range(artifact.user_ids))
    /\ artifact.scores.shape[2] = Len(artifact.item_ids) - 1
    /\ ~cf.has_artifacts
    /\ Requested /\ ListedUser /\ resp.path = "cooccurrence" /\ Len(resp.recs) > 0

-----------------------------------------------------------------------------
(* Claims about the hybrid ranker and the catalog *)

\* a search with at least one token on a non-empty lexical index
SearchServed == req.op = "search" /\ Tokenize(req.query) # <<>> /\ ranker.bm25

\* C5: a search with at least one token on a non-empty lexical index returns at most
\* k results, their scores non-increasing from first to last, and no document left
\* out has a score strictly greater than one that is included.
C5_SearchSortedTopK ==
    SearchServed =>
        /\ resp.ok
        /\ Len(resp.results) <= req.k
        /\ \A i, j \in DOMAIN resp.results :
               i < j => resp.results[i].score >= resp.results[j].score
        /\ \A d \in DOMAIN resp.scores \ Range(resp.top_idx) :
               \A i \in DOMAIN resp.results : resp.scores[d] <= resp.results[i].score

\* two documents of different score, k = 1: the better one is returned, one is left out
C5_Witness ==
    /\ SearchServed /\ req.k = 1
    /\ Len(resp.scores) = 2 /\ resp.scores[1] < resp.scores[2]
    /\ Len(resp.results) = 1 /\ resp.results[1].score = resp.scores[2]

\* C6: for an item_id present in the embedding id mapping, similar(item_id, k) has at
\* most k entries and never contains item_id itself, in EmbeddingStore.similar and in
\* HybridRanker.similar, also when vectors are identical or the mapping gives the
\* same item_id to more than one row.
C6_SimilarExcludesSelf ==
    (/\ req.op = "similar"
     /\ ranker.embed.loaded
     /\ req.item_id \in Range(embeddings.id_mapping)
     /\ resp.ok)
        => /\ Len(resp.neigh_ids) <= req.k
           /\ req.item_id \notin Range(resp.neigh_ids)
           /\ Len(resp.results) <= req.k
           /\ \A n \in DOMAIN resp.results : resp.results[n].item_id # req.item_id

\* C7: item_id is unique among the rows of the loaded catalog, and for every row
\* get_item(item_id) returns exactly the title and description stored in that row,
\* for any input table.
C7_GetItemRoundTrips ==
    ranker.ok =>
        /\ NoRepeats(ranker.idx_to_item)
        /\ req.op = "get_item" =>
               \A n \in DOMAIN ranker.items.df :
                   ranker.items.df[n].item_id = req.item_id =>
                       /\ resp.item # None
                       /\ resp.item.title = ranker.items.df[n].title
                       /\ resp.item.description = ranker.items.df[n].description

-----------------------------------------------------------------------------
(* The rank blender as a state machine *)

InitBlend ==
    /\ score_dicts \in ScoreDicts
    /\ weights \in Weights
    /\ ratings = <<>>
    /\ artifact = NoArtifactFiles
    /\ tie = "stable"
    /\ cf = CFInference(<<>>, NoArtifactFiles)
    /\ items_csv = NoTable
    /\ embeddings = NoEmbeddingFiles
    /\ ranker = NotConstructed
    /\ EvaluatorUnused
    /\ req = NoRequest
    /\ resp = NoResponse

\* a call blend_scores(score_dicts, weights)
Blend ==
    /\ req = NoRequest
    /\ req' = [op |-> "blend_scores"]
    /\ resp' = [ok |-> TRUE, combined |-> BlendScores(score_dicts, weights)]
    /\ UNCHANGED <<cfVars, rankerVars, blendVars, evalVars, tie>>

NextBlend ==
    \/ Blend
    \/ Return

SpecBlend == InitBlend /\ [][NextBlend]_vars

\* C8: blend_scores({}, weights) is the empty map for every weights map,
\* blend_scores(maps, {}) is the empty map for every maps, and blend_scores returns
\* the empty map without error whenever every weight is <= 0.
C8_EmptyBlend ==
    (/\ req.op = "blend_scores"
     /\ \/ score_dicts = EmptyDict
        \/ weights = EmptyDict
        \/ \A src \in DOMAIN weights : weights[src] <= 0)
        => resp.ok /\ resp.combined = EmptyDict

\* both sources rank an item, one weight is negative and the other zero
C8_Witness ==
    /\ req.op = "blend_scores"
    /\ DOMAIN score_dicts = Sources
    /\ \A src \in Sources : score_dicts[src] # EmptyDict
    /\ DOMAIN weights = Sources
    /\ weights["bm25"] = -1 /\ weights["cf"] = 0
    /\ resp.combined = EmptyDict

-----------------------------------------------------------------------------
(* The evaluator as a state machine *)

\* ratings.csv with the user and item columns only: at most three rows, or two rows of
\* u1 followed by two rows of u2
EvalPlainFiles ==
    LET rows == {RatingRow(u, it, Missing, Missing) : u \in RatingUsers, it \in {"A", "B"}}
    IN SeqsUpTo(rows, 3)
       \cup {df \in [1..4 -> rows] :
                GroupOf(df, "u1") = {1, 2} /\ GroupOf(df, "u2") = {3, 4}}

\* ratings.csv with a timestamp column, at most two rows
TimestampFiles ==
    SeqsUpTo({RatingRow(u, it, Missing, ts) :
                 u \in RatingUsers, it \in {"A", "B"}, ts \in TimestampCells}, 2)

\* ratings.csv with a rating column, at most two rows
RatedFiles ==
    SeqsUpTo({RatingRow(u, it, r, Missing) :
                 u \in RatingUsers, it \in {"A", "B"}, r \in RatingCells}, 2)

\* a valid artifact whose item list names A in three columns, after the best-scored B
RepeatedColumnsArtifact ==
    [exists |-> TRUE, scores |-> Matrix(1, 4, <<1, 0, 0, 0>>),
     user_ids |-> <<"u1">>, item_ids |-> <<"B", "A", "A", "A">>]

\* valid artifacts that list the user u1: two item columns, or the repeated columns
EvalArtifactFiles ==
    {RepeatedColumnsArtifact} \cup
    {a \in ArtifactFiles :
        /\ a.exists /\ a.user_ids = <<"u1">> /\ a.scores.shape = <<1, 2>>
        /\ a.item_ids \in {<<"A", "B">>, <<"A", "A">>}
        /\ a.scores.data \in {<<0, 0>>, <<0, 1>>}
        /\ a.item_ids = <<"A", "A">> => a.scores.data = <<0, 0>>}

\* the permutations of 1..n
Shuffles(n) == {p \in [1..n -> 1..n] : \A i, j \in 1..n : p[i] = p[j] => i = j}

\* what RandomState(42) may draw: one permutation for every number of rows
SeededDraws ==
    {rs \in [1..3 -> UNION {Shuffles(n) : n \in 1..3}] :
        \A n \in 1..3 : rs[n] \in Shuffles(n)}

\* the draws that differ for two rows only
PairDraws == {rs \in SeededDraws : rs[3] = <<1, 2, 3>>}

\* the largest number of rows a user has
LargestGroup(df) ==
    SetMax({0} \cup {Cardinality(GroupOf(df, u)) : u \in RatingUsers})

InitEval ==
    /\ ratings \in EvalPlainFiles \cup TimestampFiles \cup RatedFiles
    /\ artifact \in {NoArtifactFiles} \cup EvalArtifactFiles
    /\ artifact # NoArtifactFiles =>
           ratings \in EvalPlainFiles /\ Cardinality(GroupOf(ratings, "u1")) = 2
    /\ tie \in TieRules
    /\ tie = "reversed" => artifact # NoArtifactFiles \/ HasTimestamp(ratings)
    /\ random_state \in SeededDraws
    /\ LargestGroup(ratings) <= 2 => random_state \in PairDraws
    /\ HasTimestamp(ratings) => random_state[2] = <<1, 2>>
    /\ cf = CFInference(ratings, artifact)
    /\ last_report = NoReport
    /\ items_csv = NoTable
    /\ embeddings = NoEmbeddingFiles
    /\ ranker = NotConstructed
    /\ BlenderUnused
    /\ req = NoRequest
    /\ resp = NoResponse

\* user limits a caller passes: none, or one user
UserLimits == {NoLimit, 1}

\* the k of an evaluation
EvalKs == {1, 2, 3}

\* a request GET /eval/cf?k=..&users_limit=..
Evaluate(k, users_limit) ==
    /\ req = NoRequest
    /\ req' = [op |-> "evaluate_cf", k |-> k, users_limit |-> users_limit]
    /\ \E elapsed \in ElapsedVals :
           resp' = EvaluateCf(ratings, artifact, tie, random_state, k, users_limit, elapsed)
    /\ UNCHANGED <<cfVars, rankerVars, blendVars, evalVars, tie>>

NextEval ==
    \/ \E k \in EvalKs, users_limit \in UserLimits : Evaluate(k, users_limit)
    \/ Return

SpecEval == InitEval /\ [][NextEval]_vars

-----------------------------------------------------------------------------
(* Claims about the evaluator *)

\* an evaluate_cf call that repeats the k and the user limit of the last one delivered
RepeatedEvaluation == req.op = "evaluate_cf" /\ last_report.req = req

HoldoutPairs == ChooseHoldout(ratings, tie, random_state)

\* C10: holdout construction yields exactly one (user_id, item_id) pair for every user
\* with at least 2 interaction rows and none for a user with fewer than 2, and the
\* item of each pair is an item of one of that user's own rows.
C10_OnePairPerEligibleUser ==
    req.op = "evaluate_cf" =>
        /\ \A u \in RequestUsers :
               Cardinality({i \in DOMAIN HoldoutPairs : HoldoutPairs[i].user_id = u})
                   = IF Cardinality(GroupOf(ratings, u)) >= 2 THEN 1 ELSE 0
        /\ \A i \in DOMAIN HoldoutPairs :
               \E n \in GroupOf(ratings, HoldoutPairs[i].user_id) :
                   ratings[n].item_id = HoldoutPairs[i].item_id

\* u1 has two rows with different items, u2 has one row: one pair, for u1
C10_Witness ==
    /\ req.op = "evaluate_cf"
    /\ Cardinality(GroupOf(ratings, "u1")) = 2
    /\ Cardinality(GroupOf(ratings, "u2")) = 1
    /\ Cardinality({ratings[n].item_id : n \in GroupOf(ratings, "u1")}) = 2
    /\ Len(HoldoutPairs) = 1
    /\ HoldoutPairs[1].user_id = "u1"

\* the number a timestamp cell denotes
TimestampNumber(ts) == IF ts = "9" THEN 9 ELSE 10

\* C11: when the interaction table has a timestamp column, the held-out item of every
\* eligible user is the item of that user's interaction with the numerically greatest
\* timestamp, for timestamps of any magnitude as they are read from the file.
C11_HeldOutIsNumericallyLatest ==
    (req.op = "evaluate_cf" /\ HasTimestamp(ratings)) =>
        \A i \in DOMAIN HoldoutPairs :
            LET g == GroupOf(ratings, HoldoutPairs[i].user_id)
            IN (\A n \in g : ratings[n].timestamp # NaN) =>
                   \E n \in g :
                       /\ ratings[n].item_id = HoldoutPairs[i].item_id
                       /\ \A m \in g : TimestampNumber(ratings[m].timestamp)
                                           <= TimestampNumber(ratings[n].timestamp)

\* the recommender an evaluation running on the present files asks
EvaluationRecommender == CFAdapter(ratings, artifact).impl

\* C12: during evaluate_cf the held-out interaction of each evaluated user is hidden
\* from the recommender: the recommender asked for that user's top-k does not count
\* the held-out item among the user's seen items.
C12_HeldOutIsHidden ==
    (req.op = "evaluate_cf" /\ resp.ok) =>
        \A i \in DOMAIN HoldoutPairs :
            LET uid == HoldoutPairs[i].user_id
                held == HoldoutPairs[i].item_id
            IN Cardinality({n \in GroupOf(ratings, uid) : ratings[n].item_id = held}) = 1
                   => held \notin DictGet(EvaluationRecommender.user_items, uid, {})

-----------------------------------------------------------------------------
(* The running service while ratings.csv is rewritten on disk *)

\* ratings.csv files of at most three rows over the rows (u1, A) and (u2, B)
DiskRatingsFiles ==
    SeqsUpTo({RatingRow("u1", "A", Missing, Missing),
              RatingRow("u2", "B", Missing, Missing)}, 3)

\* the service starts on one of the files: the serving recommender is constructed once
InitDisk ==
    /\ ratings \in DiskRatingsFiles
    /\ artifact = NoArtifactFiles
    /\ tie = "stable"
    /\ random_state = [n \in 1..3 |-> [i \in 1..n |-> i]]
    /\ cf = CFInference(ratings, artifact)
    /\ last_report = NoReport
    /\ items_csv = NoTable
    /\ embeddings = NoEmbeddingFiles
    /\ ranker = NotConstructed
    /\ BlenderUnused
    /\ req = NoRequest
    /\ resp = NoResponse

\* the ingest job writes another ratings.csv while the service runs
WriteRatings(df) ==
    /\ req = NoRequest
    /\ df # ratings
    /\ ratings' = df
    /\ UNCHANGED <<artifact, cf, rankerVars, blendVars, evalVars, tie, req, resp>>

NextDisk ==
    \/ \E df \in DiskRatingsFiles : WriteRatings(df)
    \/ \E user_id \in RequestUsers, k \in 1..MaxK : Recommend(user_id, k)
    \/ \E k \in EvalKs, users_limit \in UserLimits : Evaluate(k, users_limit)
    \/ Return

SpecDisk == InitDisk /\ [][NextDisk]_vars

\* C13: the CF recommender state is built exactly once at startup; every evaluate_cf
\* call reads that same recommender that serves recommend requests and re-reads
\* neither artifacts nor interactions, so a change of the files on disk after startup
\* is never picked up without a restart.
C13_EvaluationReadsServingRecommender ==
    req.op = "evaluate_cf" =>
        /\ EvaluationRecommender = cf
        /\ resp.ok => resp.metrics.item_coverage <= Cardinality(DOMAIN cf.item_pop)

-----------------------------------------------------------------------------
(* More claims about the hybrid ranker and the catalog *)

\* C14: if the vector file and the mapping file do not both exist, or they disagree in
\* row count, the similarity feature is disabled: similar(item_id, k) returns an empty
\* list for every item_id and never ends in an error.
C14_MismatchDisablesSimilar ==
    (/\ req.op = "similar"
     /\ ranker.ok
     /\ \/ ~embeddings.exists
        \/ Len(embeddings.vectors) # Len(embeddings.id_mapping))
        => resp.ok /\ resp.neigh_ids = <<>> /\ resp.results = <<>>

\* the aliases of the priority list that match a column name case-insensitively
MatchingAliases ==
    {a \in DOMAIN REQUIRED_ID_COLS :
        \E i \in DOMAIN items_csv.columns :
            Lower(items_csv.columns[i]) = Lower(REQUIRED_ID_COLS[a])}

\* C15: catalog load takes as identifier column the first alias of the priority list
\* (item_id, id, movieId, product_id, book_id) that matches a column name
\* case-insensitively, whatever other alias columns are present, and fails with a
\* configuration error, loading nothing, exactly when no column matches any alias.
C15_FirstAliasIsIdColumn ==
    /\ ranker.ok <=> MatchingAliases # {}
    /\ ~ranker.ok => ranker = NotConstructed
    /\ ranker.ok =>
           \E i \in DOMAIN items_csv.columns :
               /\ Lower(items_csv.columns[i]) = Lower(REQUIRED_ID_COLS[SetMin(MatchingAliases)])
               /\ Len(ranker.items.df) = Len(items_csv.rows)
               /\ \A n \in DOMAIN items_csv.rows :
                      ranker.items.df[n].item_id = items_csv.rows[n][i]

\* a catalog with the columns movieId and ID and a row: the id is read from ID, and a
\* lookup of that id finds the row
C15_Witness ==
    /\ items_csv.columns = <<"movieId", "ID">>
    /\ Len(items_csv.rows) = 1
    /\ ranker.ok
    /\ ranker.items.df[1].item_id = items_csv.rows[1][2]
    /\ req.op = "get_item"
    /\ resp.item # None

-----------------------------------------------------------------------------
(* More claims about the CF recommender *)

\* the items the user of the request has rows for
SeenByUser == {ratings[i].item_id : i \in {n \in DOMAIN ratings : ratings[n].user_id = req.user_id}}

\* C16: in artifact mode, for a user of the artifact's user list and any positive k
\* (also k greater than the number of artifact items), recommend_for_user returns the
\* min(k, number of unseen finite-score items) items with the highest values of the
\* user's score row among the items the user has not seen, in descending order of
\* those scores.
C16_ArtifactTopKForAnyK ==
    (Requested /\ cf.has_artifacts /\ ListedUser) =>
        LET uidx == CHOOSE i \in DOMAIN artifact.user_ids :
                        artifact.user_ids[i] = req.user_id
            score(j) == artifact.scores.data[(uidx - 1) * Len(artifact.item_ids) + j]
            unseen == {j \in DOMAIN artifact.item_ids : artifact.item_ids[j] \notin SeenByUser}
            ids == ItemIdsOf(resp.recs)
        IN /\ resp.ok
           /\ Len(ids) = Min2(req.k, Cardinality(unseen))
           /\ \E cols \in [DOMAIN ids -> unseen] :
                  /\ \A n \in DOMAIN ids : ids[n] = artifact.item_ids[cols[n]]
                  /\ \A m, n \in DOMAIN ids : m < n =>
                         cols[m] # cols[n] /\ score(cols[m]) >= score(cols[n])
                  /\ \A j \in unseen \ Range(cols) :
                         \A n \in DOMAIN ids : score(j) <= score(cols[n])

\* C17: in search(query, k) with a non-empty lexical index, documents of equal score
\* appear in the result in their corpus (catalog row) order, and when several
\* equal-score documents compete for the last places of the top-k the ones earliest in
\* the corpus are kept.
C17_EqualScoresInCorpusOrder ==
    SearchServed =>
        /\ \A i, j \in DOMAIN resp.top_idx :
               (i < j /\ resp.scores[resp.top_idx[i]] = resp.scores[resp.top_idx[j]])
                   => resp.top_idx[i] < resp.top_idx[j]
        /\ \A d \in DOMAIN resp.scores \ Range(resp.top_idx) :
               \A i \in DOMAIN resp.top_idx :
                   resp.scores[d] = resp.scores[resp.top_idx[i]] => resp.top_idx[i] < d

CoSumOfRequest(b) ==
    SumOver(SeenByUser,
            [a \in SeenByUser |-> DictGet(DictGet(cf.co_counts, a, EmptyDict), b, 0)])

\* a's score (co-occurrence sum + 0.01 x item_pop, taken times 100) is above b's, or
\* equal with the smaller id
RankedBefore(a, b) ==
    LET sa == 100 * CoSumOfRequest(a) + cf.item_pop[a]
        sb == 100 * CoSumOfRequest(b) + cf.item_pop[b]
    IN sa > sb \/ (sa = sb /\ StrLess(a, b))

\* C19: in fallback mode, for a user with at least one seen item, recommend_for_user
\* returns the first k entries of the list of all unseen items that occur in the
\* interaction data, ordered by descending score(b) = (sum over the seen items a of
\* co_counts[a][b]) + 0.01 x item_pop[b], equal scores by item_id ascending.
C19_FallbackRanking ==
    (Requested /\ ~cf.has_artifacts /\ SeenByUser # {}) =>
        LET unseen == RatedItems \ SeenByUser
            ids == ItemIdsOf(resp.recs)
        IN /\ resp.ok
           /\ Len(ids) = Min2(req.k, Cardinality(unseen))
           /\ Range(ids) \subseteq unseen
           /\ \A i, j \in DOMAIN ids : i < j => RankedBefore(ids[i], ids[j])
           /\ \A x \in unseen \ Range(ids) : \A i \in DOMAIN ids : RankedBefore(ids[i], x)

\* u1 has seen A; B co-occurs with A once, C never but has 99 rows: B comes first
C19_Witness ==
    /\ Requested /\ ~cf.has_artifacts
    /\ req.user_id = "u1" /\ req.k = 2
    /\ SeenByUser = {"A"}
    /\ CoSumOfRequest("B") = 1 /\ CoSumOfRequest("C") = 0
    /\ cf.item_pop["C"] = 99
    /\ ItemIdsOf(resp.recs) = <<"B", "C">>

\* C20: in fallback mode the popularity term only breaks ties: for a known user and two
\* unseen items x and y, if the co-occurrence sum of x with the user's seen items is
\* strictly greater than that of y, then x is ranked before y, whatever the
\* popularity counts of x and y.
C20_PopularityOnlyBreaksTies ==
    (Requested /\ ~cf.has_artifacts /\ SeenByUser # {}) =>
        LET unseen == RatedItems \ SeenByUser
            ids == ItemIdsOf(resp.recs)
        IN \A x, y \in unseen :
               CoSumOfRequest(x) > CoSumOfRequest(y) =>
                   \A j \in DOMAIN ids :
                       ids[j] = y => \E i \in DOMAIN ids : i < j /\ ids[i] = x

\* C21: in artifact mode, for a user_id that is not in the artifact's user list,
\* recommend_for_user returns the k globally most popular items (ties by item_id
\* ascending), independent of the score matrix and of any interaction history of that
\* user.
C21_UnlistedUserGetsPopular ==
    (Requested /\ cf.has_artifacts /\ ~ListedUser)
        => resp.ok /\ IsGlobalTopK(ItemIdsOf(resp.recs), req.k)

\* an unlisted user with two seen items of equal popularity asks for one item in
\* artifact mode: the smaller id comes back, an item of the user's own history
C21_Witness ==
    /\ Requested /\ cf.has_artifacts /\ ~ListedUser
    /\ req.k = 1
    /\ SeenByUser = {"A", "B"}
    /\ ItemIdsOf(resp.recs) = <<"A">>

-----------------------------------------------------------------------------
(* More claims about the rank blender *)

\* the sources whose weight is strictly positive
PositiveSources == {src \in DOMAIN weights : weights[src] > 0}

\* the positive-weight sources that rank the item
RankingSources(item_id) ==
    {src \in PositiveSources \cap DOMAIN score_dicts : item_id \in DOMAIN score_dicts[src]}

\* C22: the key set of blend_scores(maps, weights) is exactly the set of items ranked
\* by at least one source whose weight is strictly positive, and each such item's
\* combined score is the sum, over the positive-weight sources that rank it, of
\* (weight / sum of all positive weights) x that source's score.
C22_BlendOfPositiveSources ==
    req.op = "blend_scores" =>
        LET positive_sum == SumOver(PositiveSources, weights)
        IN /\ resp.ok
           /\ DOMAIN resp.combined = {item_id \in {"A", "B"} : RankingSources(item_id) # {}}
           /\ \A item_id \in DOMAIN resp.combined :
                  resp.combined[item_id].num * positive_sum
                      = resp.combined[item_id].den
                          * SumOver(RankingSources(item_id),
                                    [src \in RankingSources(item_id) |->
                                        weights[src] * score_dicts[src][item_id]])

\* bm25 with weight 2 ranks A, cf with weight -1 ranks B: only A is blended, with
\* bm25's score
C22_Witness ==
    /\ req.op = "blend_scores"
    /\ DOMAIN weights = Sources /\ weights["bm25"] = 2 /\ weights["cf"] = -1
    /\ DOMAIN score_dicts = Sources
    /\ DOMAIN score_dicts["bm25"] = {"A"} /\ score_dicts["bm25"]["A"] = 1
    /\ DOMAIN score_dicts["cf"] = {"B"}
    /\ DOMAIN resp.combined = {"A"}
    /\ resp.combined["A"].num = resp.combined["A"].den

-----------------------------------------------------------------------------
(* More claims about the evaluator *)

\* the pairs an evaluation running now evaluates: the holdout, or its seeded sample
EvaluatedPairs ==
    IF req.users_limit # NoLimit
    THEN SampleUsers(HoldoutPairs, req.users_limit, random_state)
    ELSE HoldoutPairs

\* the ids the recommender of the evaluation returns for the user of a pair
RecommendedTo(pair) ==
    ItemIdsOf(RecommendForUser(EvaluationRecommender, tie, pair.user_id, req.k).recs)

\* the rank of the held-out item in a list that holds it: its first position
RankIn(ids, held) == SetMin({i \in DOMAIN ids : ids[i] = held})

\* C23: for every evaluated user, with hit = 1 if the held-out item is among the first
\* k recommended ids and 0 otherwise, precision@k = hit/k, recall@k = hit and
\* average-precision@k = 1/rank of the held-out item in the list if hit, else 0, for
\* every list the recommender can return.  (Seen on the report of an evaluation of one
\* user, whose means are that user's values.)
C23_PerUserMetrics ==
    (req.op = "evaluate_cf" /\ resp.ok /\ Len(EvaluatedPairs) = 1) =>
        LET pair == EvaluatedPairs[1]
            ids == Take(RecommendedTo(pair), req.k)
            hit == IF pair.item_id \in Range(ids) THEN 1 ELSE 0
        IN /\ resp.metrics.precision_at_k = Round4(hit, req.k)
           /\ resp.metrics.recall_at_k = Round4(hit, 1)
           /\ resp.metrics.map_at_k =
                  IF hit = 1 THEN Round4(1, RankIn(ids, pair.item_id)) ELSE 0

-----------------------------------------------------------------------------
(* More claims about the recommender *)

\* C24: in every mode, recommend_for_user never returns an item that occurs in an
\* interaction row of the same user.
C24_NeverReturnsSeenItem ==
    (Requested /\ resp.ok) =>
        \A n \in DOMAIN resp.recs : resp.recs[n].item_id \notin SeenByUser

\* the users with a row for item a and a row for item b in ratings.csv
UsersWithBoth(a, b) ==
    {u \in {ratings[i].user_id : i \in DOMAIN ratings} :
        /\ \E i \in DOMAIN ratings : ratings[i].user_id = u /\ ratings[i].item_id = a
        /\ \E i \in DOMAIN ratings : ratings[i].user_id = u /\ ratings[i].item_id = b}

\* co_counts[a], empty when a has no entry
CoCountsRow(a) == DictGet(cf.co_counts, a, EmptyDict)

\* C25: after construction co_counts is symmetric and has no self-pairs: for distinct
\* items a and b, co_counts[a][b] = co_counts[b][a] = the number of distinct users whose
\* item set contains both (the entry is absent when that number is 0), and co_counts[a]
\* never contains a, also when ratings.csv repeats a (user, item) row.
C25_CoCountsSymmetric ==
    \A a \in ItemIds :
        /\ a \notin DOMAIN CoCountsRow(a)
        /\ \A b \in ItemIds \ {a} :
               LET n == Cardinality(UsersWithBoth(a, b))
               IN IF n = 0
                  THEN b \notin DOMAIN CoCountsRow(a)
                  ELSE /\ b \in DOMAIN CoCountsRow(a) /\ CoCountsRow(a)[b] = n
                       /\ a \in DOMAIN CoCountsRow(b) /\ CoCountsRow(b)[a] = n

\* a file that repeats the row (u1, A): A and B still co-occur once
C25_Witness ==
    /\ Len(ratings) = 3
    /\ ratings[1].user_id = "u1" /\ ratings[1].item_id = "A"
    /\ ratings[2].user_id = "u1" /\ ratings[2].item_id = "A"
    /\ ratings[3].user_id = "u1" /\ ratings[3].item_id = "B"
    /\ cf.co_counts["A"]["B"] = 1 /\ cf.co_counts["B"]["A"] = 1
    /\ DOMAIN cf.co_counts["A"] = {"B"}

====
